---- MODULE Spec2Model ----
(***************************************************************************)
(* Model of scripts/merge_chapter1.py: title normalisation, heading-level  *)
(* detection, section parsing, title matching and the merge of a source    *)
(* document's section bodies into a template's heading structure.          *)
(*                                                                         *)
(* Strings are sequences of one-symbol strings.  Non-ASCII symbols are     *)
(* written with ASCII names: "T0".."T9" are the Thai digits U+0E50..U+0E59,*)
(* "CH" is the chapter marker literal of line 43, "TH" is the localized    *)
(* heading-style word of line 64, "Heading" is the style-name prefix of    *)
(* line 58.                                                                *)
(***************************************************************************)
EXTENDS Integers, Sequences, FiniteSets, TLC

\* ------------------------------------------------------------------------
\* Character classes, as Python's re and str see them
\* ------------------------------------------------------------------------
ArabicDigits == {"0", "1", "2", "3", "4", "5", "6", "7", "8", "9"}

ThaiDigits == {"T0", "T1", "T2", "T3", "T4", "T5", "T6", "T7", "T8", "T9"}

\* \d of a str pattern matches every Unicode decimal digit, Thai included
IsDigit(c) == c \in ArabicDigits \cup ThaiDigits

\* \s and str.strip()
IsSpace(c) == c \in {" ", "\t"}

UpperLetters == {"A", "B", "C", "D", "E", "F", "G", "H", "I", "J", "K", "L", "M", "N", "O", "P", "Q", "R", "S", "U", "V", "W", "X", "Y", "Z"}

LowerLetters == {"a", "b", "c", "d", "e", "f", "g", "h", "i", "j", "k", "l", "m", "n", "o", "p", "q", "r", "s", "u", "v", "w", "x", "y", "z"}

\* \w : alphanumerics and the underscore; "Heading" and "TH" stand for words
IsWord(c) == IsDigit(c) \/ c \in UpperLetters \cup LowerLetters \cup {"_", "Heading", "TH"}

\* the punctuation class of line 29 (its ASCII members)
Punctuation == {"-", "(", ")", "[", "]", "{", "}", ":", ";", ",", "."}

\* None, where the code returns a number or None
NoneValue == -1

\* ------------------------------------------------------------------------
\* str helpers
\* ------------------------------------------------------------------------
RECURSIVE LStrip(_)
LStrip(s) == IF s # <<>> /\ IsSpace(Head(s)) THEN LStrip(Tail(s)) ELSE s

RECURSIVE RStrip(_)
RStrip(s) == IF s # <<>> /\ IsSpace(s[Len(s)]) THEN RStrip(SubSeq(s, 1, Len(s) - 1)) ELSE s

\* str.strip()
Strip(s) == RStrip(LStrip(s))

LowerChar(c) ==
  IF c \in UpperLetters
    THEN CHOOSE l \in LowerLetters :
           \E i \in 1..25 : /\ <<"A","B","C","D","E","F","G","H","I","J","K","L","M","N","O","P","Q","R","S","U","V","W","X","Y","Z">>[i] = c
                            /\ <<"a","b","c","d","e","f","g","h","i","j","k","l","m","n","o","p","q","r","s","u","v","w","x","y","z">>[i] = l
    ELSE c

\* str.lower()
Lower(s) == [i \in 1..Len(s) |-> LowerChar(s[i])]

\* first position at or after i that does not hold a digit
RECURSIVE DigitsEnd(_, _)
DigitsEnd(s, i) == IF i <= Len(s) /\ IsDigit(s[i]) THEN DigitsEnd(s, i + 1) ELSE i

\* first position at or after i that does not hold whitespace
RECURSIVE SpaceEnd(_, _)
SpaceEnd(s, i) == IF i <= Len(s) /\ IsSpace(s[i]) THEN SpaceEnd(s, i + 1) ELSE i

\* greedy (?:[\.-]\d+)* starting at i
RECURSIVE NumGroupsEnd(_, _)
NumGroupsEnd(s, i) ==
  IF i + 1 <= Len(s) /\ s[i] \in {".", "-"} /\ IsDigit(s[i + 1])
    THEN NumGroupsEnd(s, DigitsEnd(s, i + 1))
    ELSE i

\* \b in front of the word character at position i
WordBoundaryBefore(s, i) == i = 1 \/ ~IsWord(s[i - 1])

\* end of the match of \b\d+(?:[\.-]\d+)*\.?\s* that starts at i
NumberingMatchEnd(s, i) ==
  LET e1 == NumGroupsEnd(s, DigitsEnd(s, i))
      e2 == IF e1 <= Len(s) /\ s[e1] = "." THEN e1 + 1 ELSE e1
  IN  SpaceEnd(s, e2)

\* re.sub(r"\b\d+(?:[\.-]\d+)*\.?\s*", "", text), scanning from position i
RECURSIVE SubNumbering(_, _)
SubNumbering(s, i) ==
  IF i > Len(s) THEN <<>>
  ELSE IF IsDigit(s[i]) /\ WordBoundaryBefore(s, i)
    THEN SubNumbering(s, NumberingMatchEnd(s, i))
    ELSE <<s[i]>> \o SubNumbering(s, i + 1)

\* re.sub(r"[T0-T9]", "", text)
RemoveThaiDigits(s) == SelectSeq(s, LAMBDA c : c \notin ThaiDigits)

\* re.sub(r"[\-...\(\)\[\]\{\}:;,.]", " ", text)
PunctuationToSpace(s) == [i \in 1..Len(s) |-> IF s[i] \in Punctuation THEN " " ELSE s[i]]

\* re.sub(r"\s+", " ", text)
RECURSIVE CollapseWhitespace(_, _)
CollapseWhitespace(s, i) ==
  IF i > Len(s) THEN <<>>
  ELSE IF IsSpace(s[i])
    THEN <<" ">> \o CollapseWhitespace(s, SpaceEnd(s, i))
    ELSE <<s[i]>> \o CollapseWhitespace(s, i + 1)

\* the same function without the final strip of line 32
normalize_title_NoFinalStrip(text) ==
  CollapseWhitespace(PunctuationToSpace(RemoveThaiDigits(SubNumbering(Lower(Strip(text)), 1))), 1)

normalize_title(text) ==
  Strip(CollapseWhitespace(PunctuationToSpace(RemoveThaiDigits(SubNumbering(Lower(Strip(text)), 1))), 1))

\* ------------------------------------------------------------------------
\* _heading_level_from_text
\* ------------------------------------------------------------------------
ThaiToArabicChar(c) ==
  IF c \in ThaiDigits
    THEN CHOOSE d \in ArabicDigits :
           \E i \in 1..10 : /\ <<"T0","T1","T2","T3","T4","T5","T6","T7","T8","T9">>[i] = c
                            /\ <<"0","1","2","3","4","5","6","7","8","9">>[i] = d
    ELSE c

\* raw.translate(thai_to_arabic)
Translate(s) == [i \in 1..Len(s) |-> ThaiToArabicChar(s[i])]

\* re.match(r"^(CH)\s*\d+", raw_norm)
MatchesChapterMarker(s) ==
  /\ Len(s) >= 2
  /\ s[1] = "CH"
  /\ LET j == SpaceEnd(s, 2) IN j <= Len(s) /\ IsDigit(s[j])

\* positions at which some repetition count of (?:\.(\d+))* can stop, from i
RECURSIVE DottedStops(_, _)
DottedStops(s, i) ==
  {i} \cup (IF i + 1 <= Len(s) /\ s[i] = "." /\ IsDigit(s[i + 1])
              THEN DottedStops(s, DigitsEnd(s, i + 1))
              ELSE {})

\* re.match(r"^(\d+)(?:\.(\d+))*[\.)\s]", raw_norm)
MatchesNumericPrefix(s) ==
  /\ s # <<>>
  /\ IsDigit(s[1])
  /\ \E j \in DottedStops(s, DigitsEnd(s, 1)) :
       j <= Len(s) /\ (s[j] \in {".", ")"} \/ IsSpace(s[j]))

\* raw_norm.split()[0] of a stripped, non-empty string
RECURSIVE FirstToken(_)
FirstToken(s) ==
  IF s = <<>> \/ IsSpace(Head(s)) THEN <<>> ELSE <<Head(s)>> \o FirstToken(Tail(s))

\* len(re.findall(r"\d+", s)): the number of maximal digit runs from position i
RECURSIVE CountDigitRuns(_, _)
CountDigitRuns(s, i) ==
  IF i > Len(s) THEN 0
  ELSE IF IsDigit(s[i]) THEN 1 + CountDigitRuns(s, DigitsEnd(s, i))
  ELSE CountDigitRuns(s, i + 1)

Max(a, b) == IF a >= b THEN a ELSE b

heading_level_from_text(text) ==
  IF text = <<>> THEN NoneValue
  ELSE LET raw_norm == Translate(Strip(text))
       IN  IF MatchesChapterMarker(raw_norm) THEN 1
           ELSE IF MatchesNumericPrefix(raw_norm)
             THEN LET parts == CountDigitRuns(FirstToken(raw_norm), 1)
                  IN  IF parts > 0 THEN Max(1, parts) ELSE NoneValue
             ELSE NoneValue

\* ------------------------------------------------------------------------
\* get_heading_level and parse_sections
\* ------------------------------------------------------------------------
DigitValue(c) ==
  CHOOSE v \in 0..9 :
    \E i \in 1..10 : /\ ( <<"0","1","2","3","4","5","6","7","8","9">>[i] = c
                          \/ <<"T0","T1","T2","T3","T4","T5","T6","T7","T8","T9">>[i] = c )
                     /\ v = i - 1

\* int() of a string of digits
RECURSIVE ParseInt(_)
ParseInt(s) == IF s = <<>> THEN 0 ELSE 10 * ParseInt(SubSeq(s, 1, Len(s) - 1)) + DigitValue(s[Len(s)])

\* start of the run of digits that ends the string (Len(s) + 1 when there is none)
RECURSIVE TrailingDigitsStart(_)
TrailingDigitsStart(s) ==
  IF s # <<>> /\ IsDigit(s[Len(s)])
    THEN TrailingDigitsStart(SubSeq(s, 1, Len(s) - 1))
    ELSE Len(s) + 1

\* position of the first digit at or after i (Len(s) + 1 when there is none)
RECURSIVE FirstDigit(_, _)
FirstDigit(s, i) == IF i > Len(s) \/ IsDigit(s[i]) THEN i ELSE FirstDigit(s, i + 1)

get_heading_level(paragraph) ==
  LET style_name == paragraph.style
      m == TrailingDigitsStart(style_name)
      m2 == FirstDigit(style_name, 1)
  IN  IF style_name # <<>> /\ style_name[1] = "Heading" /\ m <= Len(style_name)
        THEN ParseInt(SubSeq(style_name, m, Len(style_name)))
      ELSE IF (\E i \in 1..Len(style_name) : style_name[i] = "TH") /\ m2 <= Len(style_name)
        THEN ParseInt(SubSeq(style_name, m2, DigitsEnd(style_name, m2) - 1))
      ELSE heading_level_from_text(paragraph.text)

\* a new section record; a body paragraph is held by its position in the document
NewSection(p) ==
  [title |-> Strip(p.text), norm_title |-> normalize_title(p.text),
   level |-> get_heading_level(p), paragraphs |-> <<>>]

\* the loop of parse_sections over paragraphs i.. with the sections built so far;
\* current is the last element of sections, or None while sections is empty
RECURSIVE ParseFrom(_, _, _)
ParseFrom(paras, i, sections) ==
  IF i > Len(paras) THEN sections
  ELSE IF get_heading_level(paras[i]) # NoneValue
    THEN ParseFrom(paras, i + 1, Append(sections, NewSection(paras[i])))
  ELSE IF sections # <<>>
    THEN ParseFrom(paras, i + 1,
           [sections EXCEPT ![Len(sections)].paragraphs = Append(@, i)])
    ELSE ParseFrom(paras, i + 1, sections)

\* the same loop, a body paragraph going to the first section instead of the current one
RECURSIVE ParseFrom_FirstSection(_, _, _)
ParseFrom_FirstSection(paras, i, sections) ==
  IF i > Len(paras) THEN sections
  ELSE IF get_heading_level(paras[i]) # NoneValue
    THEN ParseFrom_FirstSection(paras, i + 1, Append(sections, NewSection(paras[i])))
  ELSE IF sections # <<>>
    THEN ParseFrom_FirstSection(paras, i + 1,
           [sections EXCEPT ![1].paragraphs = Append(@, i)])
    ELSE ParseFrom_FirstSection(paras, i + 1, sections)

parse_sections_FirstSection(paras) == ParseFrom_FirstSection(paras, 1, <<>>)

parse_sections(paras) == ParseFrom(paras, 1, <<>>)

\* ------------------------------------------------------------------------
\* build_title_index: a dict, kept as its items in insertion order
\* ------------------------------------------------------------------------
HasKey(index, key) == \E n \in 1..Len(index) : index[n].key = key

Lookup(index, key) == index[CHOOSE n \in 1..Len(index) : index[n].key = key].idx

\* the same assignment, a present key keeping its first position
DictSet_KeepFirst(index, key, i) ==
  IF HasKey(index, key) THEN index ELSE Append(index, [key |-> key, idx |-> i])

\* index[key] = i : a present key keeps its place in the order
DictSet(index, key, i) ==
  IF HasKey(index, key)
    THEN [n \in 1..Len(index) |-> IF index[n].key = key THEN [key |-> key, idx |-> i] ELSE index[n]]
    ELSE Append(index, [key |-> key, idx |-> i])

RECURSIVE BuildIndexFrom(_, _, _)
BuildIndexFrom(sections, i, index) ==
  IF i > Len(sections) THEN index
  ELSE IF sections[i].norm_title # <<>>
    THEN BuildIndexFrom(sections, i + 1, DictSet(index, sections[i].norm_title, i))
    ELSE BuildIndexFrom(sections, i + 1, index)

build_title_index(sections) == BuildIndexFrom(sections, 1, <<>>)

\* ------------------------------------------------------------------------
\* difflib.SequenceMatcher(a, b).ratio(), as line 115 uses it (no junk: the
\* automatic junk heuristic needs 200 or more characters)
\* ------------------------------------------------------------------------
\* length of the common run that starts at a[i] and b[j], inside a[..ahi), b[..bhi)
RECURSIVE CommonRun(_, _, _, _, _, _)
CommonRun(a, b, i, j, ahi, bhi) ==
  IF i < ahi /\ j < bhi /\ a[i] = b[j] THEN 1 + CommonRun(a, b, i + 1, j + 1, ahi, bhi) ELSE 0

\* find_longest_match: the longest block, the earliest in a, then the earliest in b
LongestMatch(a, b, alo, ahi, blo, bhi) ==
  LET cand == {<<i, j>> \in (alo..(ahi - 1)) \X (blo..(bhi - 1)) : TRUE}
      size(c) == CommonRun(a, b, c[1], c[2], ahi, bhi)
      best == CHOOSE c \in cand :
                \A d \in cand :
                  \/ size(c) > size(d)
                  \/ /\ size(c) = size(d)
                     /\ (c[1] < d[1] \/ (c[1] = d[1] /\ c[2] <= d[2]))
  IN  <<best[1], best[2], size(best)>>

\* sum of the sizes of get_matching_blocks() over a[alo..ahi), b[blo..bhi)
RECURSIVE MatchedChars(_, _, _, _, _, _)
MatchedChars(a, b, alo, ahi, blo, bhi) ==
  IF alo >= ahi \/ blo >= bhi THEN 0
  ELSE LET m == LongestMatch(a, b, alo, ahi, blo, bhi)
       IN  IF m[3] = 0 THEN 0
           ELSE m[3] + MatchedChars(a, b, alo, m[1], blo, m[2])
                     + MatchedChars(a, b, m[1] + m[3], ahi, m[2] + m[3], bhi)

\* the ratio 2.0 * matches / length as the fraction <<numerator, denominator>>
Ratio(a, b) ==
  IF Len(a) + Len(b) = 0 THEN <<1, 1>>
  ELSE <<2 * MatchedChars(a, b, 1, Len(a) + 1, 1, Len(b) + 1), Len(a) + Len(b)>>

\* comparisons of fractions with positive denominators
Greater(x, y) == x[1] * y[2] > y[1] * x[2]

AtLeast(x, y) == x[1] * y[2] >= y[1] * x[2]

\* the threshold 0.6 of line 120
Threshold == <<3, 5>>

\* ------------------------------------------------------------------------
\* find_best_match
\* ------------------------------------------------------------------------
\* the loop of lines 114-118 over the items n.. of the index
RECURSIVE FuzzyLoop(_, _, _, _, _)
FuzzyLoop(t_key, index, n, best_idx, best_score) ==
  IF n > Len(index) THEN [idx |-> best_idx, score |-> best_score]
  ELSE LET score == Ratio(t_key, index[n].key)
       IN  IF Greater(score, best_score)
             THEN FuzzyLoop(t_key, index, n + 1, index[n].idx, score)
             ELSE FuzzyLoop(t_key, index, n + 1, best_idx, best_score)

\* the same function accepting only a score above the threshold
find_best_match_Strict(template_title, source_index) ==
  LET t_key == normalize_title(template_title)
      best == FuzzyLoop(t_key, source_index, 1, NoneValue, <<0, 1>>)
  IN  IF HasKey(source_index, t_key) THEN Lookup(source_index, t_key)
      ELSE IF Greater(best.score, Threshold) THEN best.idx
      ELSE NoneValue

find_best_match(template_title, source_index) ==
  LET t_key == normalize_title(template_title)
      best == FuzzyLoop(t_key, source_index, 1, NoneValue, <<0, 1>>)
  IN  IF HasKey(source_index, t_key) THEN Lookup(source_index, t_key)
      ELSE IF AtLeast(best.score, Threshold) THEN best.idx
      ELSE NoneValue

\* ------------------------------------------------------------------------
\* State
\* ------------------------------------------------------------------------
VARIABLES
  text, normalized, renormalized, text_level,          \* calls of the two text functions
  paragraphs, sections,                                \* a call of parse_sections
  template_title, source_sections, source_index, match_result,   \* a call of the matcher
  files, pc, run, source_doc, template_sections, merge_sections, merge_index,
  out_doc, matched, skipped, tpos, result,             \* merge_chapter
  log                                                  \* what each run started from and did

textVars == <<text, normalized, renormalized, text_level>>

parseVars == <<paragraphs, sections>>

matchVars == <<template_title, source_sections, source_index, match_result>>

mergeVars == <<files, pc, run, source_doc, template_sections, merge_sections, merge_index,
               out_doc, matched, skipped, tpos, result, log>>

vars == <<textVars, parseVars, matchVars, mergeVars>>

\* a result not computed yet
Unset == NoneValue - 1

UnsetText == <<"Unset">>

UnsetSections == <<[title |-> UnsetText, norm_title |-> UnsetText, level |-> Unset, paragraphs |-> <<>>]>>

UnsetIndex == <<[key |-> UnsetText, idx |-> Unset]>>

\* all sequences over S of length at most n
SeqsUpTo(S, n) == UNION {[1..k -> S] : k \in 0..n}

\* ------------------------------------------------------------------------
\* Bounds
\* ------------------------------------------------------------------------
MaxTextLen == 4

MaxParagraphs == 4

MaxSourceSections == 3

MaxTemplateParas == 2

MaxSourceParas == 3

MaxRuns == 2

\* ------------------------------------------------------------------------
\* Calls of normalize_title and _heading_level_from_text
\* ------------------------------------------------------------------------
\* symbols of the titles given to normalize_title
TitleAlphabet == {"a", "A", "_", "1", "T2", ".", "-", " ", "/"}

\* symbols of the texts given to _heading_level_from_text
HeadingAlphabet == {"1", "T2", ".", ")", " ", "a", "CH"}

TextIdle ==
  /\ text = <<>>
  /\ normalized = UnsetText
  /\ renormalized = UnsetText
  /\ text_level = Unset

ParseIdle ==
  /\ paragraphs = <<>>
  /\ sections = UnsetSections

MatchIdle ==
  /\ template_title = <<>>
  /\ source_sections = <<>>
  /\ source_index = UnsetIndex
  /\ match_result = Unset

\* a path with no file, and a file with the paragraphs it holds
NoFile == [exists |-> FALSE, content |-> <<>>]

File(content) == [exists |-> TRUE, content |-> content]

NoResult == [error |-> "unset", matched_sections |-> 0, skipped_sections |-> 0, total_template_sections |-> 0]

MergeIdle ==
  /\ files = [template |-> NoFile, source |-> NoFile, target |-> NoFile, backup |-> NoFile]
  /\ pc = "off"
  /\ run = 0
  /\ source_doc = <<>>
  /\ template_sections = <<>>
  /\ merge_sections = <<>>
  /\ merge_index = <<>>
  /\ out_doc = <<>>
  /\ matched = 0
  /\ skipped = 0
  /\ tpos = 0
  /\ result = NoResult
  /\ log = <<>>

InitText ==
  /\ text \in SeqsUpTo(TitleAlphabet, MaxTextLen) \cup SeqsUpTo(HeadingAlphabet, MaxTextLen)
  /\ normalized = UnsetText
  /\ renormalized = UnsetText
  /\ text_level = Unset
  /\ ParseIdle /\ MatchIdle /\ MergeIdle

NormalizeTitle ==
  /\ normalized = UnsetText
  /\ normalized' = normalize_title(text)
  /\ UNCHANGED <<text, renormalized, text_level, parseVars, matchVars, mergeVars>>

NormalizeAgain ==
  /\ normalized # UnsetText
  /\ renormalized = UnsetText
  /\ renormalized' = normalize_title(normalized)
  /\ UNCHANGED <<text, normalized, text_level, parseVars, matchVars, mergeVars>>

HeadingLevelFromText ==
  /\ text_level = Unset
  /\ text_level' = heading_level_from_text(text)
  /\ UNCHANGED <<text, normalized, renormalized, parseVars, matchVars, mergeVars>>

NextText == NormalizeTitle \/ NormalizeAgain \/ HeadingLevelFromText

SpecText == InitText /\ [][NextText]_vars

\* C3: normalizing a normalized title gives the same string
NormalizeIdempotent == renormalized # UnsetText => renormalized = normalized

\* a title mixing letters, digits and punctuation was changed by the first call
\* and left alone by the second
NormalizeIdempotentWitness ==
  /\ renormalized # UnsetText
  /\ renormalized = normalized
  /\ normalized # <<>>
  /\ normalized # text
  /\ \E i \in 1..Len(text) : IsDigit(text[i])
  /\ \E i \in 1..Len(text) : text[i] \in Punctuation

\* the number of components of the dotted numeric prefix d+(.d+)* that starts s
RECURSIVE PrefixComponents(_, _)
PrefixComponents(s, i) ==
  LET e == DigitsEnd(s, i)
  IN  IF e + 1 <= Len(s) /\ s[e] = "." /\ IsDigit(s[e + 1])
        THEN 1 + PrefixComponents(s, e + 1)
        ELSE 1

\* C4: a chapter marker followed by a number gives level 1, and a dotted numeric
\* prefix (followed by ".", ")" or whitespace) gives the number of its components,
\* whatever digits come after the prefix
LevelIsPrefixComponentCount ==
  text_level # Unset =>
    LET raw == Translate(Strip(text))
    IN  /\ MatchesChapterMarker(raw) => text_level = 1
        /\ (~MatchesChapterMarker(raw) /\ MatchesNumericPrefix(raw)) =>
             text_level = Max(1, PrefixComponents(raw, 1))

\* ------------------------------------------------------------------------
\* A call of parse_sections
\* ------------------------------------------------------------------------
Para(style, txt) == [style |-> style, text |-> txt]

\* paragraphs of the documents given to parse_sections: headings by style, by
\* localized style and by text, and body paragraphs
ParagraphPool ==
  { Para(<<"Heading", " ", "1">>, <<"a", "b">>),
    Para(<<"Heading", " ", "0">>, <<"e">>),
    Para(<<"Heading", " ", "1", "2">>, <<>>),
    Para(<<"TH", " ", "2", " ", "x">>, <<"c">>),
    Para(<<"Normal">>, <<"1", ".", "1", " ", "c", "d">>),
    Para(<<>>, <<"CH", " ", "1">>),
    Para(<<"Normal">>, <<"x">>),
    Para(<<"List", " ", "2">>, <<"1", "z">>) }

InitParse ==
  /\ paragraphs \in SeqsUpTo(ParagraphPool, MaxParagraphs)
  /\ sections = UnsetSections
  /\ TextIdle /\ MatchIdle /\ MergeIdle

ParseSections ==
  /\ sections = UnsetSections
  /\ sections' = parse_sections(paragraphs)
  /\ UNCHANGED <<paragraphs, textVars, matchVars, mergeVars>>

NextParse == ParseSections

SpecParse == InitParse /\ [][NextParse]_vars

IsHeading(p) == get_heading_level(p) # NoneValue

\* positions of the heading paragraphs, in document order
HeadingPositions(paras) == SelectSeq([i \in 1..Len(paras) |-> i], LAMBDA i : IsHeading(paras[i]))

\* C9: every section record has a heading level of at least 1
SectionLevelsPositive ==
  sections # UnsetSections => \A k \in 1..Len(sections) : sections[k].level >= 1

\* C10: one section per heading paragraph, in document order; a body paragraph
\* after a heading is, once, in the section of the last heading before it, in
\* document order; a body paragraph before the first heading is in no section
SectionGrouping ==
  sections # UnsetSections =>
    LET heads == HeadingPositions(paragraphs)
    IN  /\ Len(sections) = Len(heads)
        /\ \A k \in 1..Len(sections) :
             /\ sections[k].title = Strip(paragraphs[heads[k]].text)
             /\ \A n \in 1..Len(sections[k].paragraphs) :
                  /\ sections[k].paragraphs[n] \in 1..Len(paragraphs)
                  /\ n > 1 => sections[k].paragraphs[n - 1] < sections[k].paragraphs[n]
        /\ \A i \in 1..Len(paragraphs) :
             ~IsHeading(paragraphs[i]) =>
               \A k \in 1..Len(sections) :
                 LET holds == {n \in 1..Len(sections[k].paragraphs) : sections[k].paragraphs[n] = i}
                     last == heads[k] < i /\ \A j \in (heads[k] + 1)..i : ~IsHeading(paragraphs[j])
                 IN  Cardinality(holds) = (IF last THEN 1 ELSE 0)

\* two headings, a body paragraph in front of the first and one behind the second
SectionGroupingWitness ==
  /\ sections # UnsetSections
  /\ Len(sections) >= 2
  /\ ~IsHeading(paragraphs[1])
  /\ sections[Len(sections)].paragraphs # <<>>

\* ------------------------------------------------------------------------
\* A call of build_title_index and find_best_match
\* ------------------------------------------------------------------------
\* heading texts: equal normalized forms from different raw titles, normalized
\* forms at ratio 0.6, 0.8, 0.4 and 0 of each other, and empty normalized forms
TitlePool ==
  { <<"1", " ", "a", "b", "c", "d", "e">>,
    <<"2", ".", " ", "A", "B", "C", "D", "E">>,
    <<"a", "b", "c", "x", "y">>,
    <<"a", "b", "x", "y", "z">>,
    <<"a", "b", "c", "d", "x">>,
    <<"1", ".", "2", ".">>,
    <<"(", "1", ")">>,
    <<"q", "q">> }

\* the section record parse_sections makes of a heading with this text
SectionOf(title) ==
  [title |-> Strip(title), norm_title |-> normalize_title(title), level |-> 1, paragraphs |-> <<>>]

InitMatch ==
  /\ template_title \in TitlePool
  /\ \E titles \in SeqsUpTo(TitlePool, MaxSourceSections) :
       source_sections = [i \in 1..Len(titles) |-> SectionOf(titles[i])]
  /\ source_index = UnsetIndex
  /\ match_result = Unset
  /\ TextIdle /\ ParseIdle /\ MergeIdle

BuildTitleIndex ==
  /\ source_index = UnsetIndex
  /\ source_index' = build_title_index(source_sections)
  /\ UNCHANGED <<template_title, source_sections, match_result, textVars, parseVars, mergeVars>>

FindBestMatch ==
  /\ source_index # UnsetIndex
  /\ match_result = Unset
  /\ match_result' = find_best_match(template_title, source_index)
  /\ UNCHANGED <<template_title, source_sections, source_index, textVars, parseVars, mergeVars>>

NextMatch == BuildTitleIndex \/ FindBestMatch

SpecMatch == InitMatch /\ [][NextMatch]_vars

\* positions of the source sections whose normalized title is key
SectionsWithKey(key) == {i \in 1..Len(source_sections) : source_sections[i].norm_title = key}

\* C1 as stated: the matcher returns the position of every source section whose
\* normalized title equals the normalized template title
ExactMatchReturnsThatSection ==
  match_result # Unset =>
    \A i \in SectionsWithKey(normalize_title(template_title)) : match_result = i

\* C1: when the normalized template title is not empty and is the normalized
\* title of a source section, the matcher returns the position of the last
\* source section with that normalized title
ExactMatchReturnsLastSection ==
  match_result # Unset =>
    LET t_key == normalize_title(template_title)
        same == SectionsWithKey(t_key)
    IN  (t_key # <<>> /\ same # {}) =>
          /\ match_result \in same
          /\ \A i \in same : i <= match_result

\* two source sections share the template's normalized title, a third title
\* is a close decoy, and the last of the two was returned
ExactMatchWitness ==
  /\ match_result # Unset
  /\ LET t_key == normalize_title(template_title)
         same == SectionsWithKey(t_key)
     IN  /\ t_key # <<>>
         /\ Cardinality(same) >= 2
         /\ match_result \in same
         /\ \E i \in 1..Len(source_sections) :
              /\ i \notin same
              /\ AtLeast(Ratio(t_key, source_sections[i].norm_title), Threshold)

\* C2: without an exact key the matcher returns a source position exactly when
\* some indexed title has a similarity ratio of at least 0.6
FuzzyThreshold ==
  match_result # Unset =>
    LET t_key == normalize_title(template_title)
    IN  ~HasKey(source_index, t_key) =>
          /\ match_result # NoneValue <=>
               \E n \in 1..Len(source_index) : AtLeast(Ratio(t_key, source_index[n].key), Threshold)
          /\ match_result # NoneValue => match_result \in 1..Len(source_sections)

\* the best ratio is exactly 0.6 and the matcher returned a position
FuzzyThresholdWitness ==
  /\ match_result # Unset
  /\ match_result # NoneValue
  /\ LET t_key == normalize_title(template_title)
     IN  /\ ~HasKey(source_index, t_key)
         /\ \E n \in 1..Len(source_index) : Ratio(t_key, source_index[n].key) = <<6, 10>>
         /\ \A n \in 1..Len(source_index) : ~Greater(Ratio(t_key, source_index[n].key), Threshold)

\* ------------------------------------------------------------------------
\* merge_chapter, run after run on the same paths
\* ------------------------------------------------------------------------
\* a paragraph of the output document
OutHeading(txt, level) == [kind |-> "heading", text |-> txt, level |-> level, style |-> <<>>]

OutPara(txt, style) == [kind |-> "para", text |-> txt, level |-> NoneValue, style |-> style]

\* the styles out_doc.styles resolves
OutputStyles == {<<"Normal">>, <<"Heading", " ", "1">>, <<"Heading", " ", "2">>}

\* lines 190-205: a new paragraph with the style when it resolves, and the text
CopyParagraph(sp) ==
  OutPara(sp.text, IF sp.style \in OutputStyles THEN sp.style ELSE <<"Normal">>)

\* the same loop, the copies coming out in reverse order
CopyParagraphs_Reversed(doc, s_sec) ==
  [n \in 1..Len(s_sec.paragraphs) |->
     CopyParagraph(doc[s_sec.paragraphs[Len(s_sec.paragraphs) + 1 - n]])]

\* the loop of lines 189-205 over the body paragraphs of a source section
CopyParagraphs(doc, s_sec) ==
  [n \in 1..Len(s_sec.paragraphs) |-> CopyParagraph(doc[s_sec.paragraphs[n]])]

\* Document(path)
Document(file) == file.content

TemplatePool ==
  { Para(<<"Heading", " ", "1">>, <<"1", ".", " ", "A", "b", "c", "d", "e">>),
    Para(<<"Normal">>, <<"1", ".", "1", " ", "a", "b", "x", "y", "z">>) }

SourcePool ==
  { Para(<<"Normal">>, <<"1", " ", "a", "b", "c", "d", "e">>),
    Para(<<"Heading", " ", "2">>, <<"a", "b", "c", "x", "y">>),
    Para(<<"Normal">>, <<"p">>),
    Para(<<"Custom">>, <<"r">>) }

OldTarget == File(<<OutPara(<<"o", "l", "d">>, <<"Normal">>)>>)

OldBackup == File(<<OutPara(<<"o", "l", "d", "e", "r">>, <<"Normal">>)>>)

InitMerge ==
  /\ \E template \in {NoFile} \cup {File(d) : d \in SeqsUpTo(TemplatePool, MaxTemplateParas)},
        source \in {NoFile} \cup {File(d) : d \in SeqsUpTo(SourcePool, MaxSourceParas)},
        target \in {NoFile, OldTarget},
        backup \in {NoFile, OldBackup} :
       files = [template |-> template, source |-> source, target |-> target, backup |-> backup]
  /\ pc = "idle"
  /\ run = 0
  /\ source_doc = <<>>
  /\ template_sections = <<>>
  /\ merge_sections = <<>>
  /\ merge_index = <<>>
  /\ out_doc = <<>>
  /\ matched = 0
  /\ skipped = 0
  /\ tpos = 0
  /\ result = NoResult
  /\ log = <<>>
  /\ TextIdle /\ ParseIdle /\ MatchIdle

\* merge_chapter can be called
Callable == pc \in {"idle", "done", "raised"} /\ run < MaxRuns

LogEntry == [target |-> files.target, backup |-> files.backup, copied |-> "none", output |-> NoFile]

\* lines 151-154 with an input missing, reached only after the backup of lines 210-214
RaiseFileNotFound_AfterBackup ==
  /\ Callable
  /\ ~files.template.exists \/ ~files.source.exists
  /\ run' = run + 1
  /\ pc' = "raised"
  /\ result' = [NoResult EXCEPT !.error = "FileNotFoundError"]
  /\ log' = Append(log, LogEntry)
  /\ files' = IF files.target.exists THEN [files EXCEPT !.backup = files.target] ELSE files
  /\ source_doc' = <<>>
  /\ template_sections' = <<>>
  /\ merge_sections' = <<>>
  /\ merge_index' = <<>>
  /\ out_doc' = <<>>
  /\ matched' = 0
  /\ skipped' = 0
  /\ tpos' = 0
  /\ UNCHANGED <<textVars, parseVars, matchVars>>

\* lines 151-154 with an input missing
RaiseFileNotFound ==
  /\ Callable
  /\ ~files.template.exists \/ ~files.source.exists
  /\ run' = run + 1
  /\ pc' = "raised"
  /\ result' = [NoResult EXCEPT !.error = "FileNotFoundError"]
  /\ log' = Append(log, LogEntry)
  /\ source_doc' = <<>>
  /\ template_sections' = <<>>
  /\ merge_sections' = <<>>
  /\ merge_index' = <<>>
  /\ out_doc' = <<>>
  /\ matched' = 0
  /\ skipped' = 0
  /\ tpos' = 0
  /\ UNCHANGED <<files, textVars, parseVars, matchVars>>

\* lines 151-166 with both inputs present
LoadAndParse ==
  /\ Callable
  /\ files.template.exists /\ files.source.exists
  /\ run' = run + 1
  /\ pc' = "merging"
  /\ result' = NoResult
  /\ log' = Append(log, LogEntry)
  /\ source_doc' = Document(files.source)
  /\ template_sections' = parse_sections(Document(files.template))
  /\ merge_sections' = parse_sections(Document(files.source))
  /\ merge_index' = build_title_index(parse_sections(Document(files.source)))
  /\ out_doc' = <<>>
  /\ matched' = 0
  /\ skipped' = 0
  /\ tpos' = 1
  /\ UNCHANGED <<files, textVars, parseVars, matchVars>>

InLoop == pc = "merging" /\ tpos <= Len(template_sections)

\* line 181 for the template section the loop is at
CurrentMatch == find_best_match(template_sections[tpos].title, merge_index)

\* lines 168-185 without the count of line 184
EmitUnmatched_NoCount ==
  /\ InLoop
  /\ CurrentMatch = NoneValue
  /\ out_doc' = Append(out_doc, OutHeading(template_sections[tpos].title, template_sections[tpos].level))
  /\ tpos' = tpos + 1
  /\ UNCHANGED <<files, pc, run, source_doc, template_sections, merge_sections, merge_index,
                 matched, skipped, result, log, textVars, parseVars, matchVars>>

\* lines 168-185: one pass of the loop for a heading without a match
EmitUnmatched ==
  /\ InLoop
  /\ CurrentMatch = NoneValue
  /\ out_doc' = Append(out_doc, OutHeading(template_sections[tpos].title, template_sections[tpos].level))
  /\ skipped' = skipped + 1
  /\ tpos' = tpos + 1
  /\ UNCHANGED <<files, pc, run, source_doc, template_sections, merge_sections, merge_index,
                 matched, result, log, textVars, parseVars, matchVars>>

\* lines 168-207: one pass of the loop for a heading with a match
EmitMatched ==
  /\ InLoop
  /\ CurrentMatch # NoneValue
  /\ out_doc' = Append(out_doc, OutHeading(template_sections[tpos].title, template_sections[tpos].level))
                  \o CopyParagraphs(source_doc, merge_sections[CurrentMatch])
  /\ matched' = matched + 1
  /\ tpos' = tpos + 1
  /\ UNCHANGED <<files, pc, run, source_doc, template_sections, merge_sections, merge_index,
                 skipped, result, log, textVars, parseVars, matchVars>>

LoopDone == pc = "merging" /\ tpos > Len(template_sections)

\* lines 210-215 with the copy left out
BackupTarget_NoCopy ==
  /\ LoopDone
  /\ files.target.exists
  /\ log' = [log EXCEPT ![run].copied = "ok"]
  /\ pc' = "saving"
  /\ UNCHANGED <<files, run, source_doc, template_sections, merge_sections, merge_index,
                 out_doc, matched, skipped, tpos, result, textVars, parseVars, matchVars>>

\* lines 210-215: the target exists and is copied to the backup path
BackupTarget ==
  /\ LoopDone
  /\ files.target.exists
  /\ files' = [files EXCEPT !.backup = files.target]
  /\ log' = [log EXCEPT ![run].copied = "ok"]
  /\ pc' = "saving"
  /\ UNCHANGED <<run, source_doc, template_sections, merge_sections, merge_index,
                 out_doc, matched, skipped, tpos, result, textVars, parseVars, matchVars>>

\* lines 210-217: the copy raises; the backup path is as it was or holds a
\* truncated file
BackupFails ==
  /\ LoopDone
  /\ files.target.exists
  /\ \E b \in {files.backup, File(<<>>)} : files' = [files EXCEPT !.backup = b]
  /\ log' = [log EXCEPT ![run].copied = "failed"]
  /\ pc' = "saving"
  /\ UNCHANGED <<run, source_doc, template_sections, merge_sections, merge_index,
                 out_doc, matched, skipped, tpos, result, textVars, parseVars, matchVars>>

\* line 210 with no target
NoBackup ==
  /\ LoopDone
  /\ ~files.target.exists
  /\ pc' = "saving"
  /\ UNCHANGED <<files, run, source_doc, template_sections, merge_sections, merge_index,
                 out_doc, matched, skipped, tpos, result, log, textVars, parseVars, matchVars>>

\* lines 219-222
SaveTarget ==
  /\ pc = "saving"
  /\ files' = [files EXCEPT !.target = File(out_doc)]
  /\ log' = [log EXCEPT ![run].output = File(out_doc)]
  /\ result' = [error |-> "none", matched_sections |-> matched, skipped_sections |-> skipped,
                total_template_sections |-> Len(template_sections)]
  /\ pc' = "done"
  /\ UNCHANGED <<run, source_doc, template_sections, merge_sections, merge_index,
                 out_doc, matched, skipped, tpos, textVars, parseVars, matchVars>>

\* between two runs the user removes the last paragraph of the source document
EditSource ==
  /\ pc = "done"
  /\ run < MaxRuns
  /\ files.source.exists
  /\ files.source.content = source_doc
  /\ Len(files.source.content) > 0
  /\ files' = [files EXCEPT !.source = File(SubSeq(files.source.content, 1, Len(files.source.content) - 1))]
  /\ UNCHANGED <<pc, run, source_doc, template_sections, merge_sections, merge_index,
                 out_doc, matched, skipped, tpos, result, log, textVars, parseVars, matchVars>>

\* between two runs the user removes the source document
RemoveSource ==
  /\ pc = "done"
  /\ run < MaxRuns
  /\ files.source.exists
  /\ files' = [files EXCEPT !.source = NoFile]
  /\ UNCHANGED <<pc, run, source_doc, template_sections, merge_sections, merge_index,
                 out_doc, matched, skipped, tpos, result, log, textVars, parseVars, matchVars>>

Init == InitMerge

Next ==
  \/ RaiseFileNotFound
  \/ LoadAndParse
  \/ EmitUnmatched
  \/ EmitMatched
  \/ BackupTarget
  \/ BackupFails
  \/ NoBackup
  \/ SaveTarget
  \/ EditSource
  \/ RemoveSource

Spec == Init /\ [][Next]_vars

\* positions of the body paragraphs between the heading at position h and the next heading
BodyPositions(doc, h) ==
  SelectSeq([i \in 1..Len(doc) |-> i],
            LAMBDA i : i > h /\ \A j \in (h + 1)..i : ~IsHeading(doc[j]))

\* what the output holds for the k-th heading of the template document
ExpectedSection(k) ==
  LET tdoc == files.template.content
      head == tdoc[HeadingPositions(tdoc)[k]]
      m == find_best_match(Strip(head.text), merge_index)
      body == IF m = NoneValue THEN <<>>
              ELSE BodyPositions(source_doc, HeadingPositions(source_doc)[m])
  IN  <<OutHeading(Strip(head.text), get_heading_level(head))>>
        \o [n \in 1..Len(body) |-> CopyParagraph(source_doc[body[n]])]

RECURSIVE ExpectedFrom(_)
ExpectedFrom(k) ==
  IF k > Len(HeadingPositions(files.template.content)) THEN <<>>
  ELSE ExpectedSection(k) \o ExpectedFrom(k + 1)

AllMatched ==
  \A k \in 1..Len(template_sections) :
    find_best_match(template_sections[k].title, merge_index) # NoneValue

Unmatched ==
  {k \in 1..Len(template_sections) :
     find_best_match(template_sections[k].title, merge_index) = NoneValue}

\* C6: for a template section without a match the loop adds the heading alone,
\* adds 1 to skipped, leaves matched alone and goes on to the next section; the
\* returned skipped_sections is the number of such sections
UnmatchedHeadingSkipped ==
  /\ [][ (InLoop /\ CurrentMatch = NoneValue) =>
           /\ out_doc' = Append(out_doc, OutHeading(template_sections[tpos].title,
                                                    template_sections[tpos].level))
           /\ skipped' = skipped + 1
           /\ matched' = matched
           /\ tpos' = tpos + 1
           /\ pc' = "merging"
           /\ result' = result ]_vars
  /\ [](pc = "done" =>
          /\ result.error = "none"
          /\ result.skipped_sections = Cardinality(Unmatched))

\* a merge returned after an unmatched heading followed by a matched one
UnmatchedHeadingWitness ==
  /\ pc = "done"
  /\ Len(template_sections) = 2
  /\ Unmatched = {1}
  /\ result.skipped_sections = 1
  /\ result.matched_sections = 1
  /\ out_doc[2].kind = "heading"

\* C7: with the template or the source missing the call raises file-not-found
\* and the target and the backup are as the call found them; a call gets past
\* the checks only with both inputs present
MissingInputFatal ==
  /\ pc = "raised" =>
       /\ result.error = "FileNotFoundError"
       /\ files.target = log[run].target
       /\ files.backup = log[run].backup
       /\ log[run].output = NoFile
  /\ pc \in {"merging", "saving"} => files.template.exists /\ files.source.exists
  /\ (pc \notin {"idle", "done"} /\ (~files.template.exists \/ ~files.source.exists)) =>
       pc = "raised"

\* the second run raised for a missing source and the first run's target,
\* different from the backup, is still there
MissingInputWitness ==
  /\ pc = "raised"
  /\ run = 2
  /\ ~files.source.exists
  /\ log[1].output.exists
  /\ files.target = log[1].output
  /\ files.target # files.backup

\* C8: two runs on a target path that did not exist: the first run makes no
\* backup; the second copies the first run's output to the backup path before
\* it writes the target, and with a failed copy it still writes the target and
\* returns its statistics
BackupBeforeOverwrite ==
  (Len(log) >= 1 /\ ~log[1].target.exists) =>
    /\ (run = 1 /\ pc \in {"saving", "done"}) =>
         /\ log[1].copied = "none"
         /\ files.backup = log[1].backup
    /\ (run = 2 /\ log[1].output.exists /\ pc = "saving") =>
         /\ log[2].copied \in {"ok", "failed"}
         /\ files.target = log[1].output
         /\ log[2].copied = "ok" => files.backup = log[1].output
    /\ (run = 2 /\ log[1].output.exists /\ pc = "done") =>
         /\ log[2].copied \in {"ok", "failed"}
         /\ files.target = File(out_doc)
         /\ result.error = "none"
         /\ result.total_template_sections = Len(template_sections)
         /\ log[2].copied = "ok" => (files.backup.exists /\ files.backup = log[1].output)

\* after the second run the backup holds the first run's output, which differs
\* from what the second run wrote and from the backup that was there before
BackupWitness ==
  /\ run = 2
  /\ pc = "done"
  /\ ~log[1].target.exists
  /\ log[2].copied = "ok"
  /\ files.backup = log[1].output
  /\ files.backup # files.target
  /\ files.backup # log[1].backup

====
